---- MODULE Spec2Model ----
(***************************************************************************)
(* Train lookup (main.go): three console lines are validated, the schedule *)
(* in data.json is filtered by the station pair, the matches are sorted by *)
(* the criterion, the first three are kept and printed.                    *)
(*                                                                         *)
(* Station texts are sequences of one-character strings; the criterion is  *)
(* an opaque string (it is only looked up in validCriteria).  Go's int is  *)
(* modelled with IntSize bits so that short texts leave its range.         *)
(***************************************************************************)
EXTENDS Integers, Sequences, FiniteSets, TLC

VARIABLES
    pc,               \* position in main / FindTrains, or in a direct call
    depStation,       \* first console line
    arrStation,       \* second console line
    criteria,         \* third console line
    importStatus,     \* "not-read", "ok", "open-failed", "unmarshal-failed"
    trainSchedule,    \* records decoded from data.json by importInfo
    availableTrains,  \* SelectTrains' result; the slice handed to SortTrains
    sortedTrains,     \* the slice SortTrains returns
    result,           \* the Trains FindTrains returns
    err,              \* the error FindTrains returns: a chain of messages, <<>> is nil
    output            \* lines written to standard output after the lookup

vars == <<pc, depStation, arrStation, criteria, importStatus, trainSchedule,
          availableTrains, sortedTrains, result, err, output>>

(***************************************************************************)
(* Bounds of the model                                                     *)
(***************************************************************************)
IntSize == 4       \* bits of the modelled int (strconv.IntSize is 32 or 64)
MaxLen == 2        \* longest station text of the validator's input space
MaxTrains == 4     \* longest schedule / record sequence

(***************************************************************************)
(* Program constants                                                       *)
(***************************************************************************)
maxNumberTrains == 3
naturalNumberCondition == 0

\* Seeded fault: the guard before sorting compares against the wrong constant.
sortConditionMut == naturalNumberCondition

sortCondition == 1

validCriteria == {"price", "arrival-time", "departure-time"}

criteriaErr == <<"unsupported criteria">>
emptyDepartureErr == <<"empty departure station">>
emptyArrivalErr == <<"empty arrival station">>
badArrivalInputErr == <<"bad arrival station input">>
badDepartureInputErr == <<"bad departure station input">>

(***************************************************************************)
(* strconv.Atoi, as validateIsNaturalNumber and SelectTrains use it:       *)
(* ParseInt(s, 10, 0).  A syntax error yields 0; a value out of range      *)
(* yields the nearest int together with ErrRange.  Digits are scanned left *)
(* to right and the scan stops at the first overflow.                      *)
(***************************************************************************)
MaxUint == 2^IntSize - 1
MaxInt == 2^(IntSize - 1) - 1
MinInt == -(2^(IntSize - 1))

Digits == {"0", "1", "2", "3", "4", "5", "6", "7", "8", "9"}

DigitVal(c) ==
    CASE c = "0" -> 0 [] c = "1" -> 1 [] c = "2" -> 2 [] c = "3" -> 3
      [] c = "4" -> 4 [] c = "5" -> 5 [] c = "6" -> 6 [] c = "7" -> 7
      [] c = "8" -> 8 [] c = "9" -> 9

RECURSIVE ParseUintFrom(_, _, _)
ParseUintFrom(s, i, n) ==
    IF i > Len(s) THEN [value |-> n, err |-> "nil"]
    ELSE IF s[i] \notin Digits THEN [value |-> 0, err |-> "ErrSyntax"]
    ELSE IF n >= (MaxUint \div 10) + 1 THEN [value |-> MaxUint, err |-> "ErrRange"]
    ELSE IF n * 10 + DigitVal(s[i]) > MaxUint
         THEN [value |-> MaxUint, err |-> "ErrRange"]
    ELSE ParseUintFrom(s, i + 1, n * 10 + DigitVal(s[i]))

ParseUint(s) ==
    IF s = <<>> THEN [value |-> 0, err |-> "ErrSyntax"]
    ELSE ParseUintFrom(s, 1, 0)

Atoi(s) ==
    IF s = <<>> THEN [value |-> 0, err |-> "ErrSyntax"]
    ELSE LET neg == s[1] = "-"
             body == IF s[1] \in {"+", "-"} THEN Tail(s) ELSE s
             un == ParseUint(body)
             cutoff == MaxInt + 1
         IN  IF un.err = "ErrSyntax" THEN [value |-> 0, err |-> "ErrSyntax"]
             ELSE IF ~neg /\ un.value >= cutoff
                  THEN [value |-> MaxInt, err |-> "ErrRange"]
             ELSE IF neg /\ un.value > cutoff
                  THEN [value |-> MinInt, err |-> "ErrRange"]
             ELSE [value |-> IF neg THEN -un.value ELSE un.value, err |-> "nil"]

(***************************************************************************)
(* Validator                                                               *)
(***************************************************************************)
validateEmpty(s) == IF Len(s) = 0 THEN "value of input is empty" ELSE "nil"

validateIsNaturalNumber(s) ==
    LET value == Atoi(s).value
    IN  IF value <= naturalNumberCondition
        THEN "value is not a natural number"
        ELSE "nil"

\* Seeded fault: the criterion lookup is missing.
validatorMut(departureStation, arrivalStation, crit) ==
    IF validateEmpty(departureStation) # "nil" THEN emptyDepartureErr
    ELSE IF validateEmpty(arrivalStation) # "nil" THEN emptyArrivalErr
    ELSE IF validateIsNaturalNumber(departureStation) # "nil" THEN badDepartureInputErr
    ELSE IF validateIsNaturalNumber(arrivalStation) # "nil" THEN badArrivalInputErr
    ELSE <<>>

validator(departureStation, arrivalStation, crit) ==
    IF validateEmpty(departureStation) # "nil" THEN emptyDepartureErr
    ELSE IF validateEmpty(arrivalStation) # "nil" THEN emptyArrivalErr
    ELSE IF validateIsNaturalNumber(departureStation) # "nil" THEN badDepartureInputErr
    ELSE IF validateIsNaturalNumber(arrivalStation) # "nil" THEN badArrivalInputErr
    ELSE IF crit \notin validCriteria THEN criteriaErr
    ELSE <<>>

(***************************************************************************)
(* Records and the record source                                           *)
(***************************************************************************)
Train(id, dep, arr, price, arrTime, depTime) ==
    [TrainID |-> id, DepartureStationID |-> dep, ArrivalStationID |-> arr,
     Price |-> price, ArrivalTime |-> arrTime, DepartureTime |-> depTime]

\* Seeded fault: open and decode errors are dropped.
importInfoMut(file) ==
    [trains |-> <<>>, err |-> <<>>]

\* importInfo: the outcome of opening and decoding data.json.
importInfo(file) ==
    IF file.status = "open-failed"
    THEN [trains |-> <<>>, err |-> <<"os.Open returns an error">>]
    ELSE IF file.status = "unmarshal-failed"
    THEN [trains |-> <<>>, err |-> <<"error during Unmarshal">>]
    ELSE [trains |-> file.trains, err |-> <<>>]

(***************************************************************************)
(* Selector                                                                *)
(***************************************************************************)
\* Seeded fault: the arrival station is not compared.
MatchesMut(v, departure, arrival) ==
    v.DepartureStationID = departure

Matches(v, departure, arrival) ==
    v.DepartureStationID = departure /\ v.ArrivalStationID = arrival

\* The range loop of SelectTrains: append every matching record in turn.
RECURSIVE SelectLoop(_, _, _, _, _)
SelectLoop(schedule, i, departure, arrival, acc) ==
    IF i > Len(schedule) THEN acc
    ELSE SelectLoop(schedule, i + 1, departure, arrival,
                    IF Matches(schedule[i], departure, arrival)
                    THEN Append(acc, schedule[i])
                    ELSE acc)

SelectTrains(file, departureStation, arrivalStation) ==
    LET imported == importInfo(file)
    IN  IF imported.err # <<>>
        THEN [trains |-> <<>>, err |-> <<"importInfo failed">> \o imported.err]
        ELSE [trains |-> SelectLoop(imported.trains, 1, Atoi(departureStation).value,
                                    Atoi(arrivalStation).value, <<>>),
              err |-> <<>>]

(***************************************************************************)
(* Ranker.  sort.SliceStable sorts the slice it is given in place; on a    *)
(* slice this short it is an insertion sort driven by the less callback.   *)
(***************************************************************************)
\* Seeded fault: a non-strict comparison, which lets equal prices swap.
LessByPriceMut(a, b) ==
    a.Price <= b.Price

LessByPrice(a, b) ==
    IF a.Price # b.Price THEN a.Price < b.Price ELSE a.Price < b.Price

LessByArrival(a, b) ==
    IF a.ArrivalTime # b.ArrivalTime
    THEN a.ArrivalTime < b.ArrivalTime
    ELSE a.ArrivalTime < b.ArrivalTime

LessByDeparture(a, b) ==
    IF a.DepartureTime # b.DepartureTime
    THEN a.DepartureTime < b.DepartureTime
    ELSE a.DepartureTime < b.DepartureTime

Less(by, a, b) ==
    CASE by = "price" -> LessByPrice(a, b)
      [] by = "arrival" -> LessByArrival(a, b)
      [] OTHER -> LessByDeparture(a, b)

Swap(s, i, j) == [s EXCEPT ![i] = s[j], ![j] = s[i]]

\* for j := i; j > a && less(j, j-1); j-- { swap(j, j-1) }
RECURSIVE SinkDown(_, _, _)
SinkDown(s, j, by) ==
    IF j > 1 /\ Less(by, s[j], s[j - 1])
    THEN SinkDown(Swap(s, j, j - 1), j - 1, by)
    ELSE s

\* for i := a + 1; i < b; i++ { ... }
RECURSIVE InsertionSort(_, _, _)
InsertionSort(s, i, by) ==
    IF i > Len(s) THEN s
    ELSE InsertionSort(SinkDown(s, i, by), i + 1, by)

SliceStable(s, by) == InsertionSort(s, 2, by)

SortTrainsByPrice(trains) == SliceStable(trains, "price")
SortTrainsByArrival(trains) == SliceStable(trains, "arrival")
SortTrainsByDeparture(trains) == SliceStable(trains, "departure")

SortTrains(trains, crit) ==
    CASE crit = "price" -> SortTrainsByPrice(trains)
      [] crit = "arrival-time" -> SortTrainsByArrival(trains)
      [] OTHER -> SortTrainsByDeparture(trains)

\* Seeded fault: the loop stops one record early.
SeparateTopTrainsMut(trains) ==
    [i \in 1..2 |-> trains[i]]

SeparateTopTrains(trains) ==
    [i \in 1..3 |-> trains[i]]

\* Train.String: the rendered fields of one record.
TrainString(t) ==
    <<"train", t.TrainID, t.DepartureStationID, t.ArrivalStationID, t.Price,
      t.ArrivalTime, t.DepartureTime>>

\* PrintTrains: one Printf per record.
PrintTrains(trains) == [i \in 1..Len(trains) |-> TrainString(trains[i])]

(***************************************************************************)
(* Input spaces                                                            *)
(***************************************************************************)
Chars == {"0", "1", "2", "-", "+", "a"}

Strings(n) == UNION {[1..k -> Chars] : k \in 0..n}

Min(a, b) == IF a < b THEN a ELSE b

DigitChar(d) == CHOOSE c \in Digits : DigitVal(c) = d

\* The decimal numeral of a natural number.
RECURSIVE Decimal(_)
Decimal(n) ==
    IF n < 10 THEN <<DigitChar(n)>>
    ELSE Decimal(n \div 10) \o <<DigitChar(n % 10)>>

\* A station text as the specification reads it: an optional sign, then
\* one or more decimal digits, denoting an integer.
NumeralBody(s) == IF s # <<>> /\ s[1] \in {"+", "-"} THEN Tail(s) ELSE s

IsNumeral(s) ==
    /\ NumeralBody(s) # <<>>
    /\ \A i \in 1..Len(NumeralBody(s)) : NumeralBody(s)[i] \in Digits

RECURSIVE PositionalValue(_)
PositionalValue(ds) ==
    IF ds = <<>> THEN 0
    ELSE 10 * PositionalValue(SubSeq(ds, 1, Len(ds) - 1)) + DigitVal(ds[Len(ds)])

NumeralValue(s) ==
    IF s[1] = "-" THEN -PositionalValue(NumeralBody(s))
    ELSE PositionalValue(NumeralBody(s))

\* The text parses as an integer (of the int range) strictly greater than zero.
IsNaturalText(s) ==
    IsNumeral(s) /\ NumeralValue(s) >= 1 /\ NumeralValue(s) <= MaxInt

StationTexts == Strings(MaxLen)

\* Lines typed at the console prompts; "" is also what a failed read leaves.
ConsoleTexts == Strings(1) \cup {<<"2", "2">>}

CriteriaTexts == validCriteria \cup {"awef", ""}

Prices == {1, 2}
Times == {1, 2}

\* A schedule built from shapes <<departure station, arrival station, price,
\* arrival, departure>>: the i-th record carries train id i.
Schedule(f) ==
    [i \in DOMAIN f |-> Train(i, f[i][1], f[i][2], f[i][3], f[i][4], f[i][5])]

UnreadableFiles ==
    {[status |-> "open-failed", trains |-> <<>>],
     [status |-> "unmarshal-failed", trains |-> <<>>]}

ReadableFile(f) == [status |-> "ok", trains |-> Schedule(f)]

LookupShapes ==
    {<<1, 2, 1, 2, 1>>, <<1, 2, 2, 1, 1>>, <<1, 2, 1, 1, 2>>,
     <<2, 1, 1, 2, 1>>, <<2, 1, 2, 1, 1>>, <<2, 1, 1, 1, 2>>}

\* Every text of the input space that denotes a station id, and the
\* numeral of the largest id.
SelectTexts == {s \in StationTexts : IsNaturalText(s)} \cup {Decimal(MaxInt)}

SelectShapes == {1, 2} \X {1, 2} \X {1} \X {1} \X {1}

SortShapes == {1} \X {2} \X Prices \X Times \X Times

(***************************************************************************)
(* The program: main -> input -> FindTrains -> PrintTrains                 *)
(***************************************************************************)
Init ==
    /\ pc = "input"
    /\ depStation = <<>>
    /\ arrStation = <<>>
    /\ criteria = ""
    /\ importStatus = "not-read"
    /\ trainSchedule = <<>>
    /\ availableTrains = <<>>
    /\ sortedTrains = <<>>
    /\ result = <<>>
    /\ err = <<>>
    /\ output = <<>>

\* input(): three lines are read; a read error leaves the empty string.
Input ==
    /\ pc = "input"
    /\ \E d \in ConsoleTexts, a \in ConsoleTexts, c \in CriteriaTexts :
         /\ depStation' = d
         /\ arrStation' = a
         /\ criteria' = c
    /\ pc' = "validate"
    /\ UNCHANGED <<importStatus, trainSchedule, availableTrains, sortedTrains,
                   result, err, output>>

\* FindTrains, validation: an error is returned with nil Trains.
Validate ==
    /\ pc = "validate"
    /\ err' = validator(depStation, arrStation, criteria)
    /\ IF err' # <<>>
       THEN pc' = "main" /\ result' = <<>>
       ELSE pc' = "select" /\ result' = result
    /\ UNCHANGED <<depStation, arrStation, criteria, importStatus, trainSchedule,
                   availableTrains, sortedTrains, output>>

\* FindTrains, selection: data.json is read here and nowhere else.
Select ==
    /\ pc = "select"
    /\ \E file \in UnreadableFiles
                   \cup {ReadableFile(f) : f \in UNION {[1..k -> LookupShapes]
                                                          : k \in 0..MaxTrains}} :
         LET selected == SelectTrains(file, depStation, arrStation)
         IN  /\ importStatus' = file.status
             /\ trainSchedule' = file.trains
             /\ IF selected.err # <<>>
                THEN /\ err' = <<"selectTrains failed">> \o selected.err
                     /\ result' = <<>>
                     /\ pc' = "main"
                     /\ UNCHANGED availableTrains
                ELSE /\ availableTrains' = selected.trains
                     /\ IF Len(selected.trains) < sortCondition
                        THEN result' = selected.trains /\ pc' = "main"
                        ELSE result' = result /\ pc' = "sort"
                     /\ UNCHANGED err
    /\ UNCHANGED <<depStation, arrStation, criteria, sortedTrains, output>>

\* FindTrains, sorting: the returned slice shares availableTrains' array.
Sort ==
    /\ pc = "sort"
    /\ sortedTrains' = SortTrains(availableTrains, criteria)
    /\ availableTrains' = sortedTrains'
    /\ pc' = "top"
    /\ UNCHANGED <<depStation, arrStation, criteria, importStatus, trainSchedule,
                   result, err, output>>

\* FindTrains, truncation: SeparateTopTrains reads indices 0..2 and panics
\* on a shorter slice.
Top ==
    /\ pc = "top"
    /\ IF Len(sortedTrains) >= maxNumberTrains
       THEN IF Len(sortedTrains) < 3
            THEN pc' = "panic" /\ result' = result
            ELSE pc' = "main" /\ result' = SeparateTopTrains(sortedTrains)
       ELSE pc' = "main" /\ result' = sortedTrains
    /\ UNCHANGED <<depStation, arrStation, criteria, importStatus, trainSchedule,
                   availableTrains, sortedTrains, err, output>>

\* main after FindTrains returned: the error line, then PrintTrains.
Main ==
    /\ pc = "main"
    /\ output' = (IF err # <<>> THEN <<(<<"findTrains failed">> \o err)>> ELSE <<>>)
                 \o PrintTrains(result)
    /\ pc' = "exit"
    /\ UNCHANGED <<depStation, arrStation, criteria, importStatus, trainSchedule,
                   availableTrains, sortedTrains, result, err>>

Next == Input \/ Validate \/ Select \/ Sort \/ Top \/ Main

Spec == Init /\ [][Next]_vars

(***************************************************************************)
(* validator called on every triple of the input space                     *)
(***************************************************************************)
InitValidator ==
    /\ pc = "call_validator"
    /\ depStation \in StationTexts
    /\ arrStation \in StationTexts
    /\ criteria \in CriteriaTexts
    /\ importStatus = "not-read"
    /\ trainSchedule = <<>>
    /\ availableTrains = <<>>
    /\ sortedTrains = <<>>
    /\ result = <<>>
    /\ err = <<>>
    /\ output = <<>>

CallValidator ==
    /\ pc = "call_validator"
    /\ err' = validator(depStation, arrStation, criteria)
    /\ pc' = "validator_returned"
    /\ UNCHANGED <<depStation, arrStation, criteria, importStatus, trainSchedule,
                   availableTrains, sortedTrains, result, output>>

NextValidator == CallValidator

SpecValidator == InitValidator /\ [][NextValidator]_vars

(***************************************************************************)
(* SelectTrains called on its own                                          *)
(***************************************************************************)
InitSelect ==
    /\ pc = "call_select"
    /\ depStation \in SelectTexts
    /\ arrStation \in SelectTexts
    /\ criteria = "price"
    /\ importStatus = "not-read"
    /\ trainSchedule = <<>>
    /\ availableTrains = <<>>
    /\ sortedTrains = <<>>
    /\ result = <<>>
    /\ err = <<>>
    /\ output = <<>>

CallSelect ==
    /\ pc = "call_select"
    /\ \E file \in UnreadableFiles
                   \cup {ReadableFile(f) : f \in UNION {[1..k -> SelectShapes]
                                                          : k \in 0..MaxTrains}} :
         LET selected == SelectTrains(file, depStation, arrStation)
         IN  /\ importStatus' = file.status
             /\ trainSchedule' = file.trains
             /\ availableTrains' = selected.trains
             /\ err' = selected.err
    /\ pc' = "select_returned"
    /\ UNCHANGED <<depStation, arrStation, criteria, sortedTrains, result, output>>

NextSelect == CallSelect

SpecSelect == InitSelect /\ [][NextSelect]_vars

(***************************************************************************)
(* SortTrains called on its own                                            *)
(***************************************************************************)
InitSort ==
    /\ pc = "call_sort"
    /\ depStation = <<>>
    /\ arrStation = <<>>
    /\ criteria \in CriteriaTexts
    /\ importStatus = "not-read"
    /\ trainSchedule = <<>>
    /\ \E k \in 0..MaxTrains : \E f \in [1..k -> SortShapes] :
         availableTrains = Schedule(f)
    /\ sortedTrains = <<>>
    /\ result = <<>>
    /\ err = <<>>
    /\ output = <<>>

\* The argument slice is sorted in place and handed back.
CallSort ==
    /\ pc = "call_sort"
    /\ sortedTrains' = SortTrains(availableTrains, criteria)
    /\ availableTrains' = sortedTrains'
    /\ pc' = "sort_returned"
    /\ UNCHANGED <<depStation, arrStation, criteria, importStatus, trainSchedule,
                   result, err, output>>

NextSort == CallSort

SpecSort == InitSort /\ [][NextSort]_vars

(***************************************************************************)
(* Vocabulary of the properties                                            *)
(***************************************************************************)
ValidationErrs ==
    {emptyDepartureErr, emptyArrivalErr, badDepartureInputErr, badArrivalInputErr,
     criteriaErr}

\* FindTrains has returned to main.
Returned == pc \in {"main", "exit"}

\* Indices of the records of a schedule that go from station d to station a.
MatchIdx(schedule, d, a) ==
    {i \in 1..Len(schedule) :
        schedule[i].DepartureStationID = d /\ schedule[i].ArrivalStationID = a}

\* out lists exactly the records at the indices M of schedule, in index order.
ListsInOrder(out, schedule, M) ==
    /\ Len(out) = Cardinality(M)
    /\ \A i \in M : out[Cardinality({j \in M : j <= i})] = schedule[i]

KeyOf(t, crit) ==
    CASE crit = "price" -> t.Price
      [] crit = "arrival-time" -> t.ArrivalTime
      [] crit = "departure-time" -> t.DepartureTime

Count(s, t) == Cardinality({i \in 1..Len(s) : s[i] = t})

WithKey(s, crit, k) ==
    LET HasKey(t) == KeyOf(t, crit) = k IN SelectSeq(s, HasKey)

\* out is in a permutation of in, ascending in the key, equal keys in in's order.
IsStableSortOf(out, in, crit) ==
    /\ Len(out) = Len(in)
    /\ \A i \in 1..Len(in) : Count(out, in[i]) = Count(in, in[i])
    /\ \A i, j \in 1..Len(out) : i < j => KeyOf(out[i], crit) <= KeyOf(out[j], crit)
    /\ \A i \in 1..Len(in) :
          WithKey(out, crit, KeyOf(in[i], crit)) = WithKey(in, crit, KeyOf(in[i], crit))

(***************************************************************************)
(* C1.  SelectTrains on a readable source returns exactly the records      *)
(* whose departure and arrival station ids equal the ids the two texts     *)
(* denote: none missing, none extra, none repeated, in the source's order. *)
(***************************************************************************)
C1_SelectExact ==
    (/\ pc = "select_returned"
     /\ importStatus = "ok"
     /\ IsNaturalText(depStation)
     /\ IsNaturalText(arrStation))
    => /\ err = <<>>
       /\ ListsInOrder(availableTrains, trainSchedule,
                       MatchIdx(trainSchedule, NumeralValue(depStation),
                                NumeralValue(arrStation)))

\* A selection that skipped a non-matching record between two matches and
\* one that shares only the departure station.
C1_Witness ==
    /\ pc = "select_returned"
    /\ importStatus = "ok"
    /\ IsNaturalText(depStation)
    /\ IsNaturalText(arrStation)
    /\ Len(availableTrains) >= 2
    /\ \E i, j, k \in 1..Len(trainSchedule) :
         /\ i < j /\ j < k
         /\ trainSchedule[i] = availableTrains[1]
         /\ trainSchedule[k] = availableTrains[2]
         /\ trainSchedule[j].DepartureStationID = NumeralValue(depStation)
         /\ trainSchedule[j].ArrivalStationID # NumeralValue(arrStation)

(***************************************************************************)
(* C2.  For a non-empty sequence and each of the three criteria SortTrains *)
(* returns a permutation of its argument, ascending in the criterion's     *)
(* key, with records of equal key in their original relative order.        *)
(***************************************************************************)
C2_StableSort ==
    [][(pc = "call_sort" /\ criteria \in validCriteria /\ availableTrains # <<>>)
       => IsStableSortOf(sortedTrains', availableTrains, criteria)]_vars

\* A price sort that moved a record forward and kept two equal prices apart
\* in their original order.
C2_Witness ==
    /\ pc = "sort_returned"
    /\ criteria = "price"
    /\ \E i, j \in 1..Len(sortedTrains) :
         i < j /\ sortedTrains[i].TrainID > sortedTrains[j].TrainID
    /\ \E i, j \in 1..Len(sortedTrains) :
         /\ i < j
         /\ sortedTrains[i].Price = sortedTrains[j].Price
         /\ sortedTrains[i].TrainID < sortedTrains[j].TrainID

(***************************************************************************)
(* C3.  For a valid query on a readable source with n matching records,    *)
(* FindTrains returns min(3, n) records: the first min(3, n) of the sorted *)
(* matching sequence.                                                      *)
(***************************************************************************)
C3_TopThree ==
    (/\ Returned
     /\ IsNaturalText(depStation)
     /\ IsNaturalText(arrStation)
     /\ criteria \in validCriteria
     /\ importStatus = "ok")
    => LET n == Cardinality(MatchIdx(trainSchedule, NumeralValue(depStation),
                                     NumeralValue(arrStation)))
           sorted == IF n = 0 THEN <<>> ELSE sortedTrains
       IN  /\ Len(sorted) = n
           /\ Len(result) = Min(3, n)
           /\ result = SubSeq(sorted, 1, Min(3, n))

\* Four matches, of which the last in sorted order is dropped.
C3_Witness ==
    /\ pc = "exit"
    /\ Len(sortedTrains) = 4
    /\ Len(result) = 3
    /\ sortedTrains[4].TrainID # 4

\* The five rules of the validator as the specification states them, and
\* the error of each.
RuleViolated(k) ==
    CASE k = 1 -> depStation = <<>>
      [] k = 2 -> arrStation = <<>>
      [] k = 3 -> ~IsNaturalText(depStation)
      [] k = 4 -> ~IsNaturalText(arrStation)
      [] k = 5 -> criteria \notin {"price", "arrival-time", "departure-time"}

RuleErr(k) ==
    CASE k = 1 -> emptyDepartureErr
      [] k = 2 -> emptyArrivalErr
      [] k = 3 -> badDepartureInputErr
      [] k = 4 -> badArrivalInputErr
      [] k = 5 -> criteriaErr

(***************************************************************************)
(* C4.  The validator reports the earliest violated rule of: departure     *)
(* text empty, arrival text empty, departure text not an integer greater   *)
(* than zero, arrival text not an integer greater than zero, criterion     *)
(* unsupported -- for every triple that violates several of them.          *)
(***************************************************************************)
C4_FirstFailureWins ==
    (pc = "validator_returned" /\ Cardinality({k \in 1..5 : RuleViolated(k)}) >= 2)
    => \E k \in 1..5 :
         /\ RuleViolated(k)
         /\ \A h \in 1..(k - 1) : ~RuleViolated(h)
         /\ err = RuleErr(k)

(***************************************************************************)
(* C5.  A non-empty station text is accepted iff it parses as an integer   *)
(* strictly greater than zero; otherwise the departure text is rejected    *)
(* with BadDepartureInput and the arrival text with BadArrivalInput.       *)
(***************************************************************************)
C5_NaturalOnly ==
    (pc = "validator_returned" /\ depStation # <<>> /\ arrStation # <<>>)
    => /\ (err = badDepartureInputErr) <=> ~IsNaturalText(depStation)
       /\ IsNaturalText(depStation)
            => ((err = badArrivalInputErr) <=> ~IsNaturalText(arrStation))

(***************************************************************************)
(* C6.  With two valid station texts FindTrains returns UnsupportedCriteria*)
(* and no records iff the criterion is not price, arrival-time or          *)
(* departure-time; with any validation error it returns no records and the *)
(* record source has not been read.                                        *)
(***************************************************************************)
C6_UnsupportedCriteria ==
    Returned =>
      /\ (IsNaturalText(depStation) /\ IsNaturalText(arrStation))
           => ((err = criteriaErr /\ result = <<>>)
                 <=> criteria \notin {"price", "arrival-time", "departure-time"})
      /\ err \in ValidationErrs => (result = <<>> /\ importStatus = "not-read")

C6_Witness ==
    /\ pc = "exit"
    /\ IsNaturalText(depStation)
    /\ IsNaturalText(arrStation)
    /\ criteria = "awef"
    /\ err = criteriaErr
    /\ importStatus = "not-read"

(***************************************************************************)
(* C7.  A valid query whose station pair matches no record of a readable   *)
(* source returns no records and no error, and an empty selection is never *)
(* at the sort or the truncate step.                                       *)
(***************************************************************************)
C7_EmptySelection ==
    /\ (/\ Returned
        /\ IsNaturalText(depStation)
        /\ IsNaturalText(arrStation)
        /\ criteria \in validCriteria
        /\ importStatus = "ok"
        /\ MatchIdx(trainSchedule, NumeralValue(depStation),
                    NumeralValue(arrStation)) = {})
       => (result = <<>> /\ err = <<>>)
    /\ pc \in {"sort", "top"} => availableTrains # <<>>

\* A non-empty schedule with no train for the queried pair.
C7_Witness ==
    /\ pc = "exit"
    /\ IsNaturalText(depStation)
    /\ IsNaturalText(arrStation)
    /\ criteria \in validCriteria
    /\ importStatus = "ok"
    /\ trainSchedule # <<>>
    /\ MatchIdx(trainSchedule, NumeralValue(depStation), NumeralValue(arrStation)) = {}
    /\ result = <<>>
    /\ err = <<>>

(***************************************************************************)
(* C8.  At the end of a run whose lookup succeeded the output holds one     *)
(* formatted line per record of a non-empty result, and a single "no       *)
(* trains found" line when the result is empty.                            *)
(***************************************************************************)
C8_Output ==
    (pc = "exit" /\ err = <<>>) =>
      /\ result # <<>> => output = [i \in 1..Len(result) |-> TrainString(result[i])]
      /\ result = <<>> =>
           Cardinality({i \in 1..Len(output) : output[i] = <<"no trains found">>}) = 1

(***************************************************************************)
(* C9.  When the record source cannot be opened or parsed, FindTrains      *)
(* returns an error and no records, main prints that error, and the run    *)
(* goes on to its normal end; so does a run with a validation error.       *)
(***************************************************************************)
C9_SourceFailure ==
    /\ (Returned /\ importStatus \in {"open-failed", "unmarshal-failed"})
         => (err # <<>> /\ err \notin ValidationErrs /\ result = <<>>)
    /\ (pc = "exit" /\ importStatus \in {"open-failed", "unmarshal-failed"})
         => output = <<(<<"findTrains failed">> \o err)>>
    /\ (importStatus \in {"open-failed", "unmarshal-failed"} \/ err \in ValidationErrs)
         => (pc = "exit" \/ ENABLED Next)

C9_Witness ==
    /\ pc = "exit"
    /\ importStatus = "open-failed"
    /\ err = <<"selectTrains failed", "importInfo failed", "os.Open returns an error">>
    /\ output = <<(<<"findTrains failed">> \o err)>>

(***************************************************************************)
(* C10.  SortTrains leaves the sequence it was given in its original       *)
(* order.                                                                  *)
(***************************************************************************)
C10_ArgumentUntouched ==
    [][pc = "call_sort" => availableTrains' = availableTrains]_vars

====
